---- MODULE Spec2Model ----
(***************************************************************************)
(* Model of the barcode generator of src/app/page.tsx: the per-symbology   *)
(* validator (validateBarcode over BARCODE_FORMATS) and the batch          *)
(* controller (generateBatch), with the upload handler that feeds it.      *)
(*                                                                         *)
(* Strings are sequences of characters; a character is a one-token string  *)
(* and Ord gives its UTF-16 code unit, so that a regular-expression range  *)
(* such as 0-9 is the range of code units the engine compares.             *)
(***************************************************************************)
EXTENDS Integers, Sequences, FiniteSets, TLC

(***************************************************************************)
(* Characters                                                              *)
(***************************************************************************)
DigitChars == <<"0", "1", "2", "3", "4", "5", "6", "7", "8", "9">>

UpperChars ==
    <<"A", "B", "C", "D", "E", "F", "G", "H", "I", "J", "K", "L", "M",
      "N", "O", "P", "Q", "R", "S", "T", "U", "V", "W", "X", "Y", "Z">>

\* code units of the characters that are neither digits nor letters;
\* "LF" is the line feed, "CR" the carriage return, "TAB" the tabulator, "U+00E9" the letter e-acute,
\* "U+0661" the Arabic-Indic digit one
OtherOrd ==
    "TAB" :> 9 @@ "LF" :> 10 @@ "CR" :> 13 @@ " " :> 32 @@ "!" :> 33 @@ "$" :> 36 @@
    "%" :> 37 @@ "+" :> 43 @@ "," :> 44 @@ "-" :> 45 @@ "." :> 46 @@
    "/" :> 47 @@ "_" :> 95 @@ "U+00E9" :> 233 @@ "U+0661" :> 1633

LowerOrd ==
    "a" :> 97 @@ "b" :> 98 @@ "c" :> 99 @@ "h" :> 104 @@ "l" :> 108 @@
    "o" :> 111 @@ "z" :> 122

Range(s) == {s[i] : i \in DOMAIN s}

Chars == Range(DigitChars) \cup Range(UpperChars) \cup DOMAIN LowerOrd \cup DOMAIN OtherOrd

IndexOf(s, c) == CHOOSE i \in DOMAIN s : s[i] = c

Ord(c) ==
    IF c \in Range(DigitChars) THEN 47 + IndexOf(DigitChars, c)
    ELSE IF c \in Range(UpperChars) THEN 64 + IndexOf(UpperChars, c)
    ELSE IF c \in DOMAIN LowerOrd THEN LowerOrd[c]
    ELSE OtherOrd[c]

\* a class range lo-hi of a regular expression: the characters whose code
\* unit lies between those of lo and hi
ClassRange(lo, hi) == {c \in Chars : Ord(lo) <= Ord(c) /\ Ord(c) <= Ord(hi)}

(***************************************************************************)
(* Regular expressions of the shape  ^ class {min,max} $  with optional    *)
(* anchors; max = -1 stands for no upper limit (the + quantifier).         *)
(* A regular expression literal is one object for the life of the module;  *)
(* its only mutable field is lastIndex, which test reads and writes when   *)
(* the expression has the g flag (global) and ignores otherwise.           *)
(***************************************************************************)
VARIABLE lastIndex  \* lastIndex of the regular expression of each format that has one

\* the matches <<s, n>> of re in text that start at from or later: n characters of
\* the class from position s (counted from 0)
Matches(re, text, from) ==
    {m \in (from..Len(text)) \X (re.min..Len(text)) :
        /\ m[1] + m[2] <= Len(text)
        /\ re.max = -1 \/ m[2] <= re.max
        /\ \A k \in (m[1] + 1)..(m[1] + m[2]) : text[k] \in re.class
        /\ re.anchorStart => m[1] = 0
        /\ re.anchorEnd => m[1] + m[2] = Len(text)}

\* where test starts to search: lastIndex with the g flag, the start without
SearchFrom(re) == IF re.global THEN lastIndex[re.of] ELSE 0

\* RegExp.prototype.test: some substring matches
RegexTest(re, text) == Matches(re, text, SearchFrom(re)) # {}

\* lastIndex of re after test(text): untouched without the g flag; with it, the end
\* of the leftmost longest match, or 0 when there is none
LastIndexAfterTest(re, text) ==
    LET ms == Matches(re, text, SearchFrom(re))
        first == CHOOSE m \in ms : \A o \in ms : m[1] < o[1] \/ (m[1] = o[1] /\ m[2] >= o[2])
    IN  IF ~re.global THEN lastIndex[re.of]
        ELSE IF ms = {} THEN 0
        ELSE first[1] + first[2]

\* \d
ClassDigit == ClassRange("0", "9")

\* [0-9A-Z\-. $\/+%]
ClassCode39 ==
    ClassRange("0", "9") \cup ClassRange("A", "Z") \cup {"-", ".", " ", "$", "/", "+", "%"}

\* the same class with the i flag: /^[0-9A-Z\-. $\/+%]+$/i
RegexCode39_IgnoreCase ==
    [of |-> "CODE39", global |-> FALSE, anchorStart |-> TRUE,
     class |-> ClassCode39 \cup ClassRange("a", "z"),
     min |-> 1, max |-> -1, anchorEnd |-> TRUE]

\* /^[0-9A-Z\-. $\/+%]+$/
RegexCode39 ==
    [of |-> "CODE39", global |-> FALSE, anchorStart |-> TRUE, class |-> ClassCode39,
     min |-> 1, max |-> -1, anchorEnd |-> TRUE]

\* without the end anchor: /^\d{13}/
RegexEan13_NoEnd ==
    [of |-> "EAN13", global |-> FALSE, anchorStart |-> TRUE, class |-> ClassDigit,
     min |-> 13, max |-> 13, anchorEnd |-> FALSE]

\* /^\d{13}$/
RegexEan13 ==
    [of |-> "EAN13", global |-> FALSE, anchorStart |-> TRUE, class |-> ClassDigit,
     min |-> 13, max |-> 13, anchorEnd |-> TRUE]

\* with the g flag: /^\d{8}$/g
RegexEan8_Global ==
    [of |-> "EAN8", global |-> TRUE, anchorStart |-> TRUE, class |-> ClassDigit,
     min |-> 8, max |-> 8, anchorEnd |-> TRUE]

\* /^\d{8}$/
RegexEan8 ==
    [of |-> "EAN8", global |-> FALSE, anchorStart |-> TRUE, class |-> ClassDigit,
     min |-> 8, max |-> 8, anchorEnd |-> TRUE]

\* /^\d{12}$/
RegexUpc ==
    [of |-> "UPC", global |-> FALSE, anchorStart |-> TRUE, class |-> ClassDigit,
     min |-> 12, max |-> 12, anchorEnd |-> TRUE]

(***************************************************************************)
(* BARCODE_FORMATS and validateBarcode                                     *)
(***************************************************************************)
\* the value fields of BARCODE_FORMATS, in array order
BARCODE_FORMATS == <<"CODE128", "CODE39", "EAN13", "EAN8", "UPC">>

\* a CODE128 entry that admits ASCII only, as the README describes Code 128
validation_Ascii(f, text) ==
    CASE f = "CODE128" -> \A k \in DOMAIN text : Ord(text[k]) <= 127
      [] f = "CODE39" -> RegexTest(RegexCode39, text)
      [] f = "EAN13" -> RegexTest(RegexEan13, text)
      [] f = "EAN8" -> RegexTest(RegexEan8, text)
      [] f = "UPC" -> RegexTest(RegexUpc, text)

\* the validation field of the entry whose value is f, applied to text
validation(f, text) ==
    CASE f = "CODE128" -> TRUE
      [] f = "CODE39" -> RegexTest(RegexCode39, text)
      [] f = "EAN13" -> RegexTest(RegexEan13, text)
      [] f = "EAN8" -> RegexTest(RegexEan8, text)
      [] f = "UPC" -> RegexTest(RegexUpc, text)

\* a lookup that compares the identifiers without regard to case
FindFormat_IgnoreCase(format) ==
    IF format = "code128" THEN "CODE128"
    ELSE IF format \in Range(BARCODE_FORMATS) THEN format
    ELSE "undefined"

\* BARCODE_FORMATS.find(f => f.value === format): the first entry, or "undefined"
FindFormat(format) ==
    LET hits == {i \in DOMAIN BARCODE_FORMATS : BARCODE_FORMATS[i] = format}
    IN  IF hits = {} THEN "undefined"
        ELSE BARCODE_FORMATS[CHOOSE i \in hits : \A j \in hits : i <= j]

\* validateBarcode of lines 63-68
validateBarcode(text, format) ==
    IF text = <<>> THEN FALSE
    ELSE LET formatInfo == FindFormat(format)
         IN  IF formatInfo = "undefined" THEN FALSE
             ELSE validation(formatInfo, text)

\* the regular expression in the validation field of the entry whose value is f
RegexOf(f) ==
    CASE f = "CODE39" -> RegexCode39
      [] f = "EAN13" -> RegexEan13
      [] f = "EAN8" -> RegexEan8
      [] f = "UPC" -> RegexUpc

\* lastIndex after validateBarcode(text, format) of lines 63-68: the expression
\* of the format is tested unless the text is empty or the format is not found
AfterValidate(text, format) ==
    [f \in DOMAIN lastIndex |->
        IF text # <<>> /\ f = FindFormat(format) THEN LastIndexAfterTest(RegexOf(f), text)
        ELSE lastIndex[f]]

\* lastIndex after validateBarcode(text, format) of lines 658-662
AfterValidate_2(text, format) ==
    [f \in DOMAIN lastIndex |->
        IF f = FindFormat(format) THEN LastIndexAfterTest(RegexOf(f), text)
        ELSE lastIndex[f]]

\* validateBarcode of lines 658-662, which has no test of the empty text
validateBarcode_2(text, format) ==
    LET formatInfo == FindFormat(format)
    IN  IF formatInfo = "undefined" THEN FALSE
        ELSE validation(formatInfo, text)

(***************************************************************************)
(* State                                                                   *)
(***************************************************************************)
VARIABLES
    activeTab,        \* useState activeTab: "single" or "batch"
    inputText,        \* useState inputText
    barcodeSettings,  \* useState barcodeSettings: [format, width, height, fontSize]
    exportSettings,   \* useState exportSettings: [format, resolution, prefix, suffix]
    batchFile,        \* useState batchFile: the File last chosen, or NoFile
    batchData,        \* useState batchData: sequence of [barcode, text]
    validationError,  \* useState validationError: <<>> for ''
    isGenerating,     \* useState isGenerating
    previewRef,       \* previewRef: [current: whether it holds an svg, drawn: what JsBarcode drew in it]
    lastRender,       \* the options of the last call of JsBarcode by the preview or downloadSingle
    single,           \* downloadSingle: toBlob callbacks to come, the last file given to saveAs
    clicked,          \* the last click on an export button and what its handler did
    reads,            \* FileReader loads started and not yet delivered
    runs,             \* the invocations of generateBatch still tracked
    cpu,              \* index in runs of the invocation running synchronously, 0 if none
    edits,            \* number of files chosen and settings changed so far
    argText,          \* validator harness: the text passed
    argFormat,        \* validator harness: the format passed
    returned,         \* validator harness: [def, value], def = 0 before the call
    recall            \* validator harness: the same call made once more, and what lay between

vars ==
    <<activeTab, inputText, barcodeSettings, exportSettings, batchFile, batchData,
      validationError, isGenerating, previewRef, lastRender, single, clicked,
      reads, runs, cpu, edits, argText, argFormat, returned, recall, lastIndex>>

appVars ==
    <<activeTab, inputText, barcodeSettings, exportSettings, batchFile, batchData,
      validationError, isGenerating, previewRef, lastRender, single, clicked,
      reads, runs, cpu, edits>>

harnessVars == <<argText, argFormat, returned, recall>>

\* no call of test made yet
FreshRegexes == [f \in {"CODE39", "EAN13", "EAN8", "UPC"} |-> 0]

(***************************************************************************)
(* Bounds                                                                  *)
(***************************************************************************)
\* rows of an uploaded file
MaxRows == 2
\* files chosen and settings changed in one behaviour
MaxEdits == 2
\* invocations of generateBatch tracked together
MaxRuns == 2
\* length of the exhaustively enumerated validator inputs
MaxShort == 2
\* length of the digit strings given to the validator
MaxDigits == 14
\* calls of the validator with other arguments between a call and its repetition
MaxOthers == 1

(***************************************************************************)
(* Strings used as inputs                                                  *)
(***************************************************************************)
\* "1234567890123..." cut to n digits
DigitRun(n) == [i \in 1..n |-> DigitChars[(i % 10) + 1]]

SeqsUpTo(S, n) == UNION {[1..k -> S] : k \in 0..n}

(***************************************************************************)
(* Uploaded files: reader.onload, TXT branch                               *)
(***************************************************************************)
NoFile == [name |-> <<>>, text |-> <<>>]

\* file.name.endsWith('.csv')
EndsWithCsv(name) ==
    Len(name) >= 4 /\ SubSeq(name, Len(name) - 3, Len(name)) = <<".", "c", "s", "v">>

\* String.prototype.trim removes these from both ends
WhiteSpace == {"TAB", "LF", "CR", " "}

RECURSIVE TrimStart(_)
TrimStart(s) ==
    IF s # <<>> /\ Head(s) \in WhiteSpace THEN TrimStart(Tail(s)) ELSE s

RECURSIVE TrimEnd(_)
TrimEnd(s) ==
    IF s # <<>> /\ s[Len(s)] \in WhiteSpace THEN TrimEnd(SubSeq(s, 1, Len(s) - 1)) ELSE s

\* a trim that leaves the trailing white space in place
Trim_StartOnly(s) == TrimStart(s)

Trim(s) == TrimEnd(TrimStart(s))

\* text.split('\n'): the pieces between line feeds, empty pieces included
RECURSIVE Split(_)
Split(s) ==
    LET cuts == {i \in DOMAIN s : s[i] = "LF"}
    IN  IF cuts = {} THEN <<s>>
        ELSE LET c == CHOOSE i \in cuts : \A j \in cuts : i <= j
             IN  <<SubSeq(s, 1, c - 1)>> \o Split(SubSeq(s, c + 1, Len(s)))

\* the rows reader.onload makes of a TXT file
TxtRows(text) ==
    LET lines == SelectSeq(Split(text), LAMBDA line : Trim(line) # <<>>)
    IN  [k \in DOMAIN lines |-> [barcode |-> Trim(lines[k]), text |-> Trim(lines[k])]]

(***************************************************************************)
(* reader.onload, CSV branch.  Papa.parse(text, {header: true,             *)
(* skipEmptyLines: true}) is the library's: for text without quotes it     *)
(* gives, for every line but the first and the empty ones, an object with  *)
(* the fields of the line under the names of the first line, in that       *)
(* order.  An object is a sequence of <<name, value>> pairs.               *)
(***************************************************************************)
\* the pieces of s between occurrences of sep
RECURSIVE SplitAt(_, _)
SplitAt(s, sep) ==
    LET cuts == {i \in DOMAIN s : s[i] = sep}
    IN  IF cuts = {} THEN <<s>>
        ELSE LET c == CHOOSE i \in cuts : \A j \in cuts : i <= j
             IN  <<SubSeq(s, 1, c - 1)>> \o SplitAt(SubSeq(s, c + 1, Len(s)), sep)

\* results.data
PapaParse(text) ==
    LET lines == SelectSeq(SplitAt(text, "LF"), LAMBDA line : line # <<>>)
        header == SplitAt(lines[1], ",")
        Record(line) ==
            LET fields == SplitAt(line, ",")
                n == IF Len(fields) < Len(header) THEN Len(fields) ELSE Len(header)
            IN  [c \in 1..n |-> <<header[c], fields[c]>>]
    IN  IF lines = <<>> THEN <<>>
        ELSE [k \in 1..(Len(lines) - 1) |-> Record(lines[k + 1])]

\* the value undefined, which no text equals
Undefined == <<"undefined">>

\* row[name]
Field(row, name) ==
    LET hits == {c \in DOMAIN row : row[c][1] = name}
    IN  IF hits = {} THEN Undefined ELSE row[CHOOSE c \in hits : TRUE][2]

\* a || b
Or(a, b) == IF a # Undefined /\ a # <<>> THEN a ELSE b

\* Object.values(row)[0]
FirstValue(row) == IF row = <<>> THEN Undefined ELSE row[1][2]

NameBarcode == <<"b", "a", "r", "c", "o", "d", "e">>

NameBarcodeCapital == <<"B", "a", "r", "c", "o", "d", "e">>

NameText == <<"t", "e", "x", "t">>

NameTextCapital == <<"T", "e", "x", "t">>

\* rows whose label falls back from text and Text straight to the first column
CsvRows_LabelFirstColumn(text) ==
    LET data == PapaParse(text)
    IN  [k \in DOMAIN data |->
            [barcode |-> Or(Or(Field(data[k], NameBarcode), Field(data[k], NameBarcodeCapital)),
                            FirstValue(data[k])),
             text |-> Or(Or(Field(data[k], NameText), Field(data[k], NameTextCapital)),
                         FirstValue(data[k]))]]

\* the rows the complete callback makes of results.data
CsvRows(text) ==
    LET data == PapaParse(text)
    IN  [k \in DOMAIN data |->
            [barcode |-> Or(Or(Field(data[k], NameBarcode), Field(data[k], NameBarcodeCapital)),
                            FirstValue(data[k])),
             text |-> Or(Or(Or(Or(Field(data[k], NameText), Field(data[k], NameTextCapital)),
                               Field(data[k], NameBarcode)),
                            Field(data[k], NameBarcodeCapital)),
                         FirstValue(data[k]))]]

RECURSIVE JoinLines(_)
JoinLines(ls) ==
    IF ls = <<>> THEN <<>>
    ELSE IF Len(ls) = 1 THEN ls[1]
    ELSE ls[1] \o <<"LF">> \o JoinLines(Tail(ls))

\* n lines, a and b in turn
Alternate(n, a, b) == [k \in 1..n |-> IF k % 2 = 1 THEN a ELSE b]

\* the listings uploaded: the first n lines, n up to MaxRows, of two listings that
\* alternate a line CODE128, CODE39 and EAN8 admit with one only CODE128 admits
Listings ==
    {Alternate(n, DigitRun(8), <<"a", "b">>) : n \in 0..MaxRows}
        \cup {Alternate(n, <<"a", "b">>, DigitRun(8)) : n \in 0..MaxRows}

TxtName == <<"a", ".", "t", "x", "t">>

Files == {[name |-> TxtName, text |-> JoinLines(ls)] : ls \in Listings}

(***************************************************************************)
(* Numbers handed to JsBarcode: exact fractions num/den, so that           *)
(* width * ratio with ratio = resolution / 500 is the product itself.      *)
(***************************************************************************)
Num(n) == [num |-> n, den |-> 1]

\* exportSettings.resolution / 500
Ratio(resolution) == [num |-> resolution, den |-> 500]

Times(a, b) == [num |-> a.num * b.num, den |-> a.den * b.den]

SameNumber(a, b) == a.num * b.den = b.num * a.den

(***************************************************************************)
(* Preview of the single tab                                               *)
(***************************************************************************)
\* the svg of the preview is part of the page when the single tab is shown with a
\* non-empty input and no error
PreviewShown(tab, text, error) == tab = "single" /\ text # <<>> /\ error = <<>>

NoElement == [current |-> FALSE, drawn |-> <<>>]

\* previewRef.current after a commit: null when the svg is not shown, the element
\* of the commit before when that one showed it too, and a new, empty svg otherwise
Commit(ref, shown) ==
    IF ~shown THEN NoElement
    ELSE IF ref.current THEN ref
    ELSE [current |-> TRUE, drawn |-> <<>>]

NoRender ==
    [by |-> "none", text |-> <<>>, format |-> "", width |-> Num(0), height |-> Num(0),
     fontSize |-> Num(0), label |-> <<>>]

\* the options JsBarcode gets from the preview effect
PreviewArgs(text, settings) ==
    [by |-> "preview", text |-> text, format |-> settings.format,
     width |-> Num(settings.width), height |-> Num(settings.height),
     fontSize |-> Num(settings.fontSize), label |-> text]

\* the effect on [inputText, barcodeSettings], run after the commit of a render
\* with the new text or settings and the error of the render before;
\* ok: whether JsBarcode returns when it is called
previewEffect(text, settings, ok) ==
    LET ref == Commit(previewRef, PreviewShown(activeTab, text, validationError))
        validated == text # <<>> /\ ref.current
        called == validated /\ validateBarcode(text, settings.format)
        error == IF ~validated THEN <<>>
                 ELSE IF ~called THEN <<"Invalid format for ", settings.format>>
                 ELSE IF ok THEN <<>>
                 ELSE <<"Error generating barcode">>
        drawn == IF called /\ ok THEN [ref EXCEPT !.drawn = <<text, settings.format>>] ELSE ref
    IN  /\ validationError' = error
        /\ previewRef' = Commit(drawn, PreviewShown(activeTab, text, error))
        /\ lastRender' = IF called THEN PreviewArgs(text, settings) ELSE lastRender
        /\ lastIndex' = IF validated THEN AfterValidate(text, settings.format) ELSE lastIndex

(***************************************************************************)
(* Settings, tabs, input and upload handlers                               *)
(***************************************************************************)
EXPORT_FORMATS == {"png", "jpg", "svg"}

\* a select with one option more than the table of formats
FormatOptions_WithQR == Range(BARCODE_FORMATS) \cup {"QR"}

\* the options of the barcode format select
FormatOptions == Range(BARCODE_FORMATS)

\* the options of the resolution select
Resolutions == {300, 500, 800, 1200}

\* values the width and height sliders are moved to
Widths == {2, 3}

Heights == {100, 150}

\* texts typed into the prefix and suffix inputs
Prefixes == {<<>>, <<"I", "T", "_">>}

Suffixes == {<<>>, <<"_", "v", "1">>}

\* texts typed into the textarea of the single tab
InputTexts == {<<>>, <<"a", "b">>, DigitRun(8)}

\* onClick of the tab buttons
SetActiveTab(tab) ==
    /\ cpu = 0
    /\ tab # activeTab
    /\ activeTab' = tab
    /\ previewRef' = Commit(previewRef, PreviewShown(tab, inputText, validationError))
    /\ UNCHANGED <<barcodeSettings, exportSettings, batchFile, batchData, isGenerating, reads,
                   runs, cpu, edits>>
    /\ UNCHANGED <<inputText, validationError, lastRender, single, clicked>>
    /\ UNCHANGED <<argText, argFormat, returned, recall, lastIndex>>

\* onChange of the textarea of the single tab, and the preview effect
SetInputText(t, ok) ==
    /\ cpu = 0
    /\ activeTab = "single"
    /\ edits < MaxEdits
    /\ edits' = edits + 1
    /\ t # inputText
    /\ inputText' = t
    /\ previewEffect(t, barcodeSettings, ok)
    /\ UNCHANGED <<barcodeSettings, exportSettings, batchFile, batchData, isGenerating, reads,
                   runs, cpu>>
    /\ UNCHANGED <<activeTab, single, clicked>>
    /\ UNCHANGED <<argText, argFormat, returned, recall>>

\* a change of barcodeSettings, and the preview effect
SetBarcodeSettings(settings, ok) ==
    /\ cpu = 0
    /\ edits < MaxEdits
    /\ edits' = edits + 1
    /\ barcodeSettings' = settings
    /\ previewEffect(inputText, settings, ok)
    /\ UNCHANGED <<exportSettings, batchFile, batchData, isGenerating, reads, runs, cpu>>
    /\ UNCHANGED <<activeTab, inputText, single, clicked>>
    /\ UNCHANGED <<argText, argFormat, returned, recall>>

\* onChange of the barcode format select: its options are BARCODE_FORMATS
SelectFormat(f, ok) ==
    /\ f \in FormatOptions
    /\ SetBarcodeSettings([barcodeSettings EXCEPT !.format = f], ok)

\* onChange of the width slider
SetWidth(w, ok) == SetBarcodeSettings([barcodeSettings EXCEPT !.width = w], ok)

\* onChange of the height slider
SetHeight(h, ok) == SetBarcodeSettings([barcodeSettings EXCEPT !.height = h], ok)

\* a change of exportSettings
SetExportSettings(settings) ==
    /\ cpu = 0
    /\ edits < MaxEdits
    /\ edits' = edits + 1
    /\ exportSettings' = settings
    /\ UNCHANGED <<barcodeSettings, batchFile, batchData, isGenerating, reads, runs, cpu>>
    /\ UNCHANGED <<activeTab, inputText, validationError, previewRef, lastRender, single, clicked>>
    /\ UNCHANGED <<argText, argFormat, returned, recall, lastIndex>>

\* onChange of the export format select
SelectExportFormat(e) ==
    /\ e \in EXPORT_FORMATS
    /\ SetExportSettings([exportSettings EXCEPT !.format = e])

\* onChange of the resolution select, which is shown unless the format is svg
SetResolution(r) ==
    /\ exportSettings.format # "svg"
    /\ SetExportSettings([exportSettings EXCEPT !.resolution = r])

\* onChange of the prefix input
SetPrefix(p) == SetExportSettings([exportSettings EXCEPT !.prefix = p])

\* onChange of the suffix input
SetSuffix(s) == SetExportSettings([exportSettings EXCEPT !.suffix = s])

\* handleBatchUpload: records the file and starts reading it
handleBatchUpload(file) ==
    /\ cpu = 0
    /\ activeTab = "batch"
    /\ edits < MaxEdits
    /\ edits' = edits + 1
    /\ batchFile' = file
    /\ reads' = reads \cup {file}
    /\ UNCHANGED <<barcodeSettings, exportSettings, batchData, isGenerating, runs, cpu>>
    /\ UNCHANGED <<activeTab, inputText, validationError, previewRef, lastRender, single, clicked>>
    /\ UNCHANGED <<argText, argFormat, returned, recall, lastIndex>>

\* reader.onload: the rows of the file become batchData
readerOnload(file) ==
    /\ cpu = 0
    /\ file \in reads
    /\ reads' = reads \ {file}
    /\ batchData' = IF EndsWithCsv(file.name) THEN CsvRows(file.text) ELSE TxtRows(file.text)
    /\ UNCHANGED <<barcodeSettings, exportSettings, batchFile, isGenerating, runs, cpu>>
    /\ UNCHANGED <<activeTab, inputText, validationError, previewRef, lastRender, single, clicked>>
    /\ UNCHANGED <<edits, argText, argFormat, returned, recall, lastIndex>>

(***************************************************************************)
(* downloadSingle                                                          *)
(***************************************************************************)
\* the last click on one of the two export buttons and what the handler did
Clicked(button, outcome) == [button |-> button, outcome |-> outcome]

\* the characters of the export format in a file name
FormatChars == [png |-> <<"p", "n", "g">>, jpg |-> <<"j", "p", "g">>, svg |-> <<"s", "v", "g">>]

\* `${prefix}${code}${suffix}.svg`
SvgFilename(export, code) == export.prefix \o code \o export.suffix \o <<".", "s", "v", "g">>

\* a name without the suffix
RasterFilename_NoSuffix(export, code) ==
    export.prefix \o code \o <<".">> \o FormatChars[export.format]

\* `${prefix}${code}${suffix}.${format}`
RasterFilename(export, code) ==
    export.prefix \o code \o export.suffix \o <<".">> \o FormatChars[export.format]

\* a call of saveAs: the name given, and the settings and code it was made from
SavedFile(name, export, code) ==
    [name |-> name, prefix |-> export.prefix, code |-> code, suffix |-> export.suffix,
     format |-> export.format]

NoFileSaved == [name |-> <<>>, prefix |-> <<>>, code |-> <<>>, suffix |-> <<>>, format |-> ""]

\* the options JsBarcode gets from downloadSingle
SingleArgs ==
    [by |-> "single", text |-> inputText, format |-> barcodeSettings.format,
     width |-> Times(Num(barcodeSettings.width), Ratio(exportSettings.resolution)),
     height |-> Times(Num(barcodeSettings.height), Ratio(exportSettings.resolution)),
     fontSize |-> Times(Num(barcodeSettings.fontSize), Ratio(exportSettings.resolution)),
     label |-> inputText]

\* downloadSingle that goes on to the canvas although there is nothing to export
downloadSingleBlocked_Renders ==
    /\ lastRender' = SingleArgs
    /\ clicked' = Clicked("download", "returned")
    /\ UNCHANGED single

\* downloadSingle with no input or with an error shown: line 104 returns
downloadSingleBlocked ==
    /\ clicked' = Clicked("download", "returned")
    /\ UNCHANGED <<lastRender, single>>

\* downloadSingle past line 104; ctx: whether the canvas gave a 2D context,
\* ok: whether JsBarcode returns
downloadSingleExport(ctx, ok) ==
    IF ~ctx THEN
        /\ clicked' = Clicked("download", "noContext")
        /\ UNCHANGED <<lastRender, single>>
    ELSE IF ~ok THEN
        /\ lastRender' = SingleArgs
        /\ clicked' = Clicked("download", "threw")
        /\ UNCHANGED single
    ELSE IF exportSettings.format = "svg" THEN
        /\ lastRender' = SingleArgs
        /\ clicked' = Clicked("download", IF previewRef.current THEN "saved" ELSE "noSvg")
        /\ single' = IF previewRef.current
                     THEN [single EXCEPT !.saved = SavedFile(SvgFilename(exportSettings, inputText),
                                                             exportSettings, inputText),
                                         !.content = previewRef.drawn]
                     ELSE single
    ELSE
        /\ lastRender' = SingleArgs
        /\ clicked' = Clicked("download", "toBlob")
        /\ single' = [single EXCEPT !.pending = @ \cup {[export |-> exportSettings,
                                                         code |-> inputText]}]

\* a click on the download button of the single tab
downloadSingle(ctx, ok) ==
    /\ cpu = 0
    /\ activeTab = "single"
    /\ IF inputText = <<>> \/ validationError # <<>> THEN downloadSingleBlocked
       ELSE downloadSingleExport(ctx, ok)
    /\ UNCHANGED <<barcodeSettings, exportSettings, batchFile, batchData, isGenerating, reads,
                   runs, cpu, edits>>
    /\ UNCHANGED <<activeTab, inputText, validationError, previewRef>>
    /\ UNCHANGED <<argText, argFormat, returned, recall, lastIndex>>

\* the callback of canvas.toBlob of downloadSingle; blob: whether the canvas
\* could be encoded
SingleBlobCallback(c, blob) ==
    /\ cpu = 0
    /\ c \in single.pending
    /\ single' = [single EXCEPT
                    !.pending = @ \ {c},
                    !.saved = IF blob THEN SavedFile(RasterFilename(c.export, c.code), c.export, c.code)
                              ELSE @,
                    !.content = IF blob THEN <<c.code, "canvas">> ELSE @]
    /\ UNCHANGED <<barcodeSettings, exportSettings, batchFile, batchData, isGenerating, reads,
                   runs, cpu, edits>>
    /\ UNCHANGED <<activeTab, inputText, validationError, previewRef, lastRender, clicked>>
    /\ UNCHANGED <<argText, argFormat, returned, recall, lastIndex>>

(***************************************************************************)
(* generateBatch.  One invocation is a record of runs: the batchData,      *)
(* barcodeSettings and exportSettings of the render that created the       *)
(* closure, the loop index i (from 1), the position pc ("loop": running    *)
(* synchronously, "await": suspended in the 50 ms timer, "done": returned),*)
(* what it did so far (events), the options of its calls of JsBarcode      *)
(* (rendered), the canvas.toBlob callbacks not yet delivered (pending),    *)
(* the rows handed to saveAs (saved) and the names given (files).          *)
(* JavaScript runs a handler to its next await before anything else runs:  *)
(* cpu names the invocation that is running and every other action waits   *)
(* for cpu = 0.                                                            *)
(***************************************************************************)
\* a button that is disabled only while there are no rows
BatchButtonDisabled_RowsOnly == Len(batchData) = 0

\* the disabled attribute of the batch button: !batchData.length || isGenerating
BatchButtonDisabled == Len(batchData) = 0 \/ isGenerating

\* invocations that returned and have no callback left are forgotten
Tracked(rs) == SelectSeq(rs, LAMBDA r : ~(r.pc = "done" /\ r.pending = {}))

\* an invocation whose loop starts at the second row
NewRun_SkipsFirst(ctx) ==
    [rows |-> batchData,
     format |-> barcodeSettings.format,
     exportFormat |-> exportSettings.format,
     settings |-> barcodeSettings,
     export |-> exportSettings,
     ctx |-> ctx,
     i |-> 2,
     pc |-> IF ctx THEN "loop" ELSE "done",
     events |-> <<>>,
     rendered |-> <<>>,
     pending |-> {},
     saved |-> {},
     files |-> {}]

\* the invocation a click creates: it closes over the state of the current
\* render and, with a context, enters the loop at the first row; without one it
\* has returned
NewRun(ctx) ==
    [rows |-> batchData,
     format |-> barcodeSettings.format,
     exportFormat |-> exportSettings.format,
     settings |-> barcodeSettings,
     export |-> exportSettings,
     ctx |-> ctx,
     i |-> 1,
     pc |-> IF ctx THEN "loop" ELSE "done",
     events |-> <<>>,
     rendered |-> <<>>,
     pending |-> {},
     saved |-> {},
     files |-> {}]

\* generateBatch that sets isGenerating before it looks at the rows
generateBatchNoRows_SetsGenerating ==
    /\ clicked' = Clicked("batch", "returned")
    /\ isGenerating' = TRUE
    /\ UNCHANGED <<runs, cpu>>

\* generateBatch with no rows: line 188 returns
generateBatchNoRows ==
    /\ clicked' = Clicked("batch", "returned")
    /\ UNCHANGED <<isGenerating, runs, cpu>>

\* generateBatch past line 188; ctx: whether canvas.getContext('2d') gave a context
generateBatchStart(ctx) ==
    /\ Len(Tracked(runs)) < MaxRuns
    /\ \A r \in DOMAIN runs : runs[r].pc = "done" => runs[r].pending = {}
    /\ clicked' = Clicked("batch", IF ctx THEN "started" ELSE "noContext")
    /\ isGenerating' = TRUE
    /\ runs' = Append(Tracked(runs), NewRun(ctx))
    /\ cpu' = IF ctx THEN Len(Tracked(runs)) + 1 ELSE 0

\* generateBatch, run by a click on the batch button when it is enabled; with no
\* rows, where the button is disabled, the handler is run all the same
generateBatch(ctx) ==
    /\ cpu = 0
    /\ activeTab = "batch"
    /\ IF Len(batchData) = 0 THEN generateBatchNoRows
       ELSE ~BatchButtonDisabled /\ generateBatchStart(ctx)
    /\ UNCHANGED <<barcodeSettings, exportSettings, batchFile, batchData, reads>>
    /\ UNCHANGED <<activeTab, inputText, validationError, previewRef, lastRender, single>>
    /\ UNCHANGED <<edits, argText, argFormat, returned, recall, lastIndex>>

Running == cpu # 0 /\ runs[cpu].pc = "loop"

AtRow == Running /\ runs[cpu].i <= Len(runs[cpu].rows)

Item == runs[cpu].rows[runs[cpu].i]

ItemValid == validateBarcode(Item.barcode, runs[cpu].format)

Log(kinds) == runs[cpu].events \o [k \in DOMAIN kinds |-> <<kinds[k], runs[cpu].i>>]

\* options multiplied by ratio for the svg as well
BatchArgs_AlwaysScaled ==
    LET run == runs[cpu]
        ratio == Ratio(run.export.resolution)
    IN  [by |-> "batch", text |-> Item.barcode, format |-> run.settings.format,
         width |-> Times(Num(run.settings.width), ratio),
         height |-> Times(Num(run.settings.height), ratio),
         fontSize |-> Times(Num(run.settings.fontSize), ratio),
         label |-> Item.text]

\* the options JsBarcode gets for the row: as configured for svg, multiplied by
\* ratio for the canvas
BatchArgs ==
    LET run == runs[cpu]
        ratio == IF run.export.format = "svg" THEN Num(1) ELSE Ratio(run.export.resolution)
    IN  [by |-> "batch", text |-> Item.barcode, format |-> run.settings.format,
         width |-> Times(Num(run.settings.width), ratio),
         height |-> Times(Num(run.settings.height), ratio),
         fontSize |-> Times(Num(run.settings.fontSize), ratio),
         label |-> Item.text]

\* a try block around the loop instead of inside it: the throw ends the loop
CatchBlock_Abort(kinds) ==
    /\ runs' = [runs EXCEPT ![cpu].events = Log(kinds \o <<"error">>),
                            ![cpu].rendered = Append(@, BatchArgs),
                            ![cpu].pc = "done"]
    /\ cpu' = 0
    /\ isGenerating' = FALSE

\* what the catch block does after a throw in the try block, JsBarcode having
\* been called: log, next row
CatchBlock(kinds) ==
    /\ runs' = [runs EXCEPT ![cpu].events = Log(kinds \o <<"error">>),
                            ![cpu].rendered = Append(@, BatchArgs),
                            ![cpu].i = @ + 1]
    /\ cpu' = cpu
    /\ UNCHANGED isGenerating

\* a rejected row that ends the loop (break) instead of continuing it
RowRejected_Breaks ==
    /\ AtRow
    /\ ~ItemValid
    /\ runs' = [runs EXCEPT ![cpu].events = Log(<<"warn">>),
                            ![cpu].i = Len(runs[cpu].rows) + 1]
    /\ lastIndex' = AfterValidate(Item.barcode, runs[cpu].format)
    /\ UNCHANGED <<barcodeSettings, exportSettings, batchFile, batchData, isGenerating, reads, cpu>>
    /\ UNCHANGED <<activeTab, inputText, validationError, previewRef, lastRender, single, clicked>>
    /\ UNCHANGED <<edits, argText, argFormat, returned, recall>>

\* the row is rejected by validateBarcode: console.warn and continue
RowRejected ==
    /\ AtRow
    /\ ~ItemValid
    /\ runs' = [runs EXCEPT ![cpu].events = Log(<<"warn">>), ![cpu].i = @ + 1]
    /\ lastIndex' = AfterValidate(Item.barcode, runs[cpu].format)
    /\ UNCHANGED <<barcodeSettings, exportSettings, batchFile, batchData, isGenerating, reads, cpu>>
    /\ UNCHANGED <<activeTab, inputText, validationError, previewRef, lastRender, single, clicked>>
    /\ UNCHANGED <<edits, argText, argFormat, returned, recall>>

\* JsBarcode throws on the row
RowRenderThrows ==
    /\ AtRow
    /\ ItemValid
    /\ CatchBlock(<<"renderThrow">>)
    /\ lastIndex' = AfterValidate(Item.barcode, runs[cpu].format)
    /\ UNCHANGED <<barcodeSettings, exportSettings, batchFile, batchData, reads>>
    /\ UNCHANGED <<activeTab, inputText, validationError, previewRef, lastRender, single, clicked>>
    /\ UNCHANGED <<edits, argText, argFormat, returned, recall>>

\* JsBarcode returns and saveAs (svg) or canvas.toBlob (raster) throws
RowExportThrows ==
    /\ AtRow
    /\ ItemValid
    /\ CatchBlock(<<"render", "exportThrow">>)
    /\ lastIndex' = AfterValidate(Item.barcode, runs[cpu].format)
    /\ UNCHANGED <<barcodeSettings, exportSettings, batchFile, batchData, reads>>
    /\ UNCHANGED <<activeTab, inputText, validationError, previewRef, lastRender, single, clicked>>
    /\ UNCHANGED <<edits, argText, argFormat, returned, recall>>

\* JsBarcode returns, saveAs is called (svg) or canvas.toBlob is called and
\* its callback is left to come (raster), and the invocation suspends
RowExported ==
    /\ AtRow
    /\ ItemValid
    /\ runs' = [runs EXCEPT
                  ![cpu].events = Log(<<"render", "export", "await">>),
                  ![cpu].rendered = Append(@, BatchArgs),
                  ![cpu].saved = IF runs[cpu].exportFormat = "svg"
                                 THEN @ \cup {runs[cpu].i} ELSE @,
                  ![cpu].files = IF runs[cpu].exportFormat = "svg"
                                 THEN @ \cup {[row |-> runs[cpu].i,
                                               name |-> SvgFilename(runs[cpu].export, Item.barcode)]}
                                 ELSE @,
                  ![cpu].pending = IF runs[cpu].exportFormat = "svg"
                                   THEN @ ELSE @ \cup {runs[cpu].i},
                  ![cpu].pc = "await"]
    /\ cpu' = 0
    /\ lastIndex' = AfterValidate(Item.barcode, runs[cpu].format)
    /\ UNCHANGED <<barcodeSettings, exportSettings, batchFile, batchData, isGenerating, reads>>
    /\ UNCHANGED <<activeTab, inputText, validationError, previewRef, lastRender, single, clicked>>
    /\ UNCHANGED <<edits, argText, argFormat, returned, recall>>

\* the 50 ms timer of an invocation fires: it goes on with the next row
TimerFires(r) ==
    /\ cpu = 0
    /\ r \in DOMAIN runs
    /\ runs[r].pc = "await"
    /\ runs' = [runs EXCEPT ![r].pc = "loop", ![r].i = @ + 1]
    /\ cpu' = r
    /\ UNCHANGED <<barcodeSettings, exportSettings, batchFile, batchData, isGenerating, reads>>
    /\ UNCHANGED <<activeTab, inputText, validationError, previewRef, lastRender, single, clicked>>
    /\ UNCHANGED <<edits, argText, argFormat, returned, recall, lastIndex>>

\* after the last row: setIsGenerating(false) and return
LoopEnds ==
    /\ Running
    /\ runs[cpu].i > Len(runs[cpu].rows)
    /\ isGenerating' = FALSE
    /\ runs' = [runs EXCEPT ![cpu].pc = "done"]
    /\ cpu' = 0
    /\ UNCHANGED <<barcodeSettings, exportSettings, batchFile, batchData, reads>>
    /\ UNCHANGED <<activeTab, inputText, validationError, previewRef, lastRender, single, clicked>>
    /\ UNCHANGED <<edits, argText, argFormat, returned, recall, lastIndex>>

\* a callback that names the file by the export settings and rows of the moment
\* it runs
BlobCallback_CurrentState(r, j, blob) ==
    /\ cpu = 0
    /\ r \in DOMAIN runs
    /\ j \in runs[r].pending
    /\ runs' = [runs EXCEPT
                  ![r].pending = @ \ {j},
                  ![r].saved = IF blob THEN @ \cup {j} ELSE @,
                  ![r].files = IF blob
                               THEN @ \cup {[row |-> j,
                                             name |-> RasterFilename(exportSettings,
                                                                     runs[r].rows[j].barcode)]}
                               ELSE @]
    /\ UNCHANGED <<barcodeSettings, exportSettings, batchFile, batchData, isGenerating, reads, cpu>>
    /\ UNCHANGED <<activeTab, inputText, validationError, previewRef, lastRender, single, clicked>>
    /\ UNCHANGED <<edits, argText, argFormat, returned, recall, lastIndex>>

\* the callback of canvas.toBlob for row j of invocation r; blob: whether the
\* canvas could be encoded (the callback saves nothing when given null)
BlobCallback(r, j, blob) ==
    /\ cpu = 0
    /\ r \in DOMAIN runs
    /\ j \in runs[r].pending
    /\ runs' = [runs EXCEPT
                  ![r].pending = @ \ {j},
                  ![r].saved = IF blob THEN @ \cup {j} ELSE @,
                  ![r].files = IF blob
                               THEN @ \cup {[row |-> j,
                                             name |-> RasterFilename(runs[r].export,
                                                                     runs[r].rows[j].barcode)]}
                               ELSE @]
    /\ UNCHANGED <<barcodeSettings, exportSettings, batchFile, batchData, isGenerating, reads, cpu>>
    /\ UNCHANGED <<activeTab, inputText, validationError, previewRef, lastRender, single, clicked>>
    /\ UNCHANGED <<edits, argText, argFormat, returned, recall, lastIndex>>

(***************************************************************************)
(* The application                                                         *)
(***************************************************************************)
InitialBarcodeSettings == [format |-> "CODE128", width |-> 2, height |-> 100, fontSize |-> 20]

InitialExportSettings == [format |-> "png", resolution |-> 500, prefix |-> <<>>, suffix |-> <<>>]

\* the state of the component after its first render and effect
InitApp ==
    /\ activeTab = "single"
    /\ inputText = <<>>
    /\ barcodeSettings = InitialBarcodeSettings
    /\ exportSettings = InitialExportSettings
    /\ batchFile = NoFile
    /\ batchData = <<>>
    /\ validationError = <<>>
    /\ isGenerating = FALSE
    /\ previewRef = NoElement
    /\ lastRender = NoRender
    /\ single = [pending |-> {}, saved |-> NoFileSaved, content |-> <<>>]
    /\ clicked = Clicked("none", "none")
    /\ reads = {}
    /\ runs = <<>>
    /\ cpu = 0
    /\ edits = 0
    /\ lastIndex = FreshRegexes

Init ==
    /\ InitApp
    /\ argText = <<>>
    /\ argFormat = "CODE128"
    /\ returned = [def |-> 0, value |-> FALSE]
    /\ recall = [def |-> 0, value |-> FALSE, others |-> 0, ui |-> <<"CODE128", 0, FALSE>>]

\* the batch tab and the settings it uses
Next ==
    \/ \E tab \in {"single", "batch"} : SetActiveTab(tab)
    \/ \E f \in FormatOptions : \E ok \in BOOLEAN : SelectFormat(f, ok)
    \/ \E e \in EXPORT_FORMATS : SelectExportFormat(e)
    \/ \E file \in Files : handleBatchUpload(file)
    \/ \E file \in reads : readerOnload(file)
    \/ \E ctx \in BOOLEAN : generateBatch(ctx)
    \/ RowRejected
    \/ RowRenderThrows
    \/ RowExportThrows
    \/ RowExported
    \/ \E r \in DOMAIN runs : TimerFires(r)
    \/ LoopEnds
    \/ \E r \in DOMAIN runs : \E j \in runs[r].pending : \E blob \in BOOLEAN :
           BlobCallback(r, j, blob)

Spec == Init /\ [][Next]_vars

(***************************************************************************)
(* A batch alone: the batch tab with a file loaded and the sizes and the   *)
(* export format and resolution as the settings panel can leave them, then *)
(* runs of generateBatch with no further change of settings.               *)
(***************************************************************************)
InitBatch ==
    /\ activeTab = "batch"
    /\ inputText = <<>>
    /\ barcodeSettings \in {[InitialBarcodeSettings EXCEPT !.format = f, !.width = w, !.height = h] :
                                f \in FormatOptions, w \in Widths, h \in Heights}
    /\ exportSettings \in {[InitialExportSettings EXCEPT !.format = e, !.resolution = r] :
                               e \in EXPORT_FORMATS, r \in Resolutions}
    /\ batchFile \in Files
    /\ batchData = TxtRows(batchFile.text)
    /\ validationError = <<>>
    /\ isGenerating = FALSE
    /\ previewRef = NoElement
    /\ lastRender = NoRender
    /\ single = [pending |-> {}, saved |-> NoFileSaved, content |-> <<>>]
    /\ clicked = Clicked("none", "none")
    /\ reads = {}
    /\ runs = <<>>
    /\ cpu = 0
    /\ edits = 0
    /\ lastIndex = FreshRegexes
    /\ argText = <<>>
    /\ argFormat = "CODE128"
    /\ returned = [def |-> 0, value |-> FALSE]
    /\ recall = [def |-> 0, value |-> FALSE, others |-> 0, ui |-> <<"CODE128", 0, FALSE>>]

NextBatch ==
    \/ \E ctx \in BOOLEAN : generateBatch(ctx)
    \/ RowRejected
    \/ RowRenderThrows
    \/ RowExportThrows
    \/ RowExported
    \/ \E r \in DOMAIN runs : TimerFires(r)
    \/ LoopEnds
    \/ \E r \in DOMAIN runs : \E j \in runs[r].pending : \E blob \in BOOLEAN :
           BlobCallback(r, j, blob)

SpecBatch == InitBatch /\ [][NextBatch]_vars

\* the single tab and the other settings
NextSingle ==
    \/ \E t \in InputTexts : \E ok \in BOOLEAN : SetInputText(t, ok)
    \/ \E w \in Widths : \E ok \in BOOLEAN : SetWidth(w, ok)
    \/ \E h \in Heights : \E ok \in BOOLEAN : SetHeight(h, ok)
    \/ \E r \in Resolutions : SetResolution(r)
    \/ \E p \in Prefixes : SetPrefix(p)
    \/ \E s \in Suffixes : SetSuffix(s)
    \/ \E ctx \in BOOLEAN : \E ok \in BOOLEAN : downloadSingle(ctx, ok)
    \/ \E c \in single.pending : \E blob \in BOOLEAN : SingleBlobCallback(c, blob)

NextApp == Next \/ NextSingle

SpecApp == Init /\ [][NextApp]_vars

(***************************************************************************)
(* The validator alone: a harness that calls validateBarcode once, with    *)
(* a text and a format identifier drawn from bounded sets.                 *)
(***************************************************************************)
\* characters the exhaustively enumerated texts are made of
ShortAlphabet ==
    {"0", "9", "A", "Z", "a", " ", "-", ".", "$", "/", "+", "%", "!", "_", "LF",
     "U+00E9", "U+0661"}

\* characters put into digit strings
Intruders == {"a", "A", " ", "-", "LF", "U+0661"}

ReplaceAt(s, p, c) == [s EXCEPT ![p] = c]

\* the digit strings of up to MaxDigits digits, and each with one character
\* replaced, prepended or appended
DigitTexts ==
    UNION {
        {DigitRun(n)}
            \cup {ReplaceAt(DigitRun(n), p, c) : p \in 1..n, c \in Intruders}
            \cup {<<c>> \o DigitRun(n) : c \in Intruders}
            \cup {DigitRun(n) \o <<c>> : c \in Intruders}
        : n \in 0..MaxDigits}

\* "héllo!", "abc", "ABC-123"
ExampleTexts ==
    {<<"h", "U+00E9", "l", "l", "o", "!">>, <<"a", "b", "c">>,
     <<"A", "B", "C", "-", "1", "2", "3">>}

Texts == SeqsUpTo(ShortAlphabet, MaxShort) \cup DigitTexts \cup ExampleTexts

\* identifiers that are no value of BARCODE_FORMATS
UnknownFormats == {"", "code128", "QR", "EAN-13"}

FormatIds == Range(BARCODE_FORMATS) \cup UnknownFormats

NotCalled == [def |-> 0, value |-> FALSE]

\* what of the UI state is remembered of the moment of the first call
UiState == <<barcodeSettings.format, Len(batchData), isGenerating>>

NotRecalled == [def |-> 0, value |-> FALSE, others |-> 0, ui |-> <<"CODE128", 0, FALSE>>]

\* a call of validateBarcode as defined at lines 63-68
CallValidateBarcode ==
    /\ returned = NotCalled
    /\ returned' = [def |-> 1, value |-> validateBarcode(argText, argFormat)]
    /\ lastIndex' = AfterValidate(argText, argFormat)
    /\ recall' = [recall EXCEPT !.ui = UiState]
    /\ UNCHANGED <<argText, argFormat>>
    /\ UNCHANGED appVars

\* a call of validateBarcode as defined at lines 658-662
CallValidateBarcode_2 ==
    /\ returned = NotCalled
    /\ returned' = [def |-> 2, value |-> validateBarcode_2(argText, argFormat)]
    /\ lastIndex' = AfterValidate_2(argText, argFormat)
    /\ recall' = [recall EXCEPT !.ui = UiState]
    /\ UNCHANGED <<argText, argFormat>>
    /\ UNCHANGED appVars

InitValidator ==
    /\ InitApp
    /\ argText \in Texts
    /\ argFormat \in FormatIds
    /\ returned = NotCalled
    /\ recall = NotRecalled

NextValidator == CallValidateBarcode \/ CallValidateBarcode_2

SpecValidator == InitValidator /\ [][NextValidator]_vars

(***************************************************************************)
(* The validator called repeatedly while the application runs: the call of *)
(* the harness, made before the application does anything, then calls     *)
(* with other arguments, and the call of the harness once more at any      *)
(* later moment.  Calls come from handlers, so none starts while an        *)
(* invocation of generateBatch is running synchronously.                   *)
(***************************************************************************)
\* the texts and formats of the repeated call
PureTexts == {<<>>, DigitRun(8)}

PureFormats == {"CODE128", "EAN8", "QR"}

\* the application has done nothing yet
AtStart == edits = 0 /\ runs = <<>> /\ UiState = NotRecalled.ui

\* a call of the definition called first, with other arguments
CallBetween(text, format) ==
    /\ cpu = 0
    /\ returned.def # 0
    /\ recall.def = 0
    /\ recall.others < MaxOthers
    /\ <<text, format>> # <<argText, argFormat>>
    /\ lastIndex' = IF returned.def = 1 THEN AfterValidate(text, format)
                    ELSE AfterValidate_2(text, format)
    /\ recall' = [recall EXCEPT !.others = @ + 1]
    /\ UNCHANGED <<argText, argFormat, returned>>
    /\ UNCHANGED appVars

\* the call of the harness made once more, of the definition called first
CallAgain ==
    /\ cpu = 0
    /\ returned.def # 0
    /\ recall.def = 0
    /\ recall' = [recall EXCEPT
                    !.def = returned.def,
                    !.value = IF returned.def = 1 THEN validateBarcode(argText, argFormat)
                              ELSE validateBarcode_2(argText, argFormat)]
    /\ lastIndex' = IF returned.def = 1 THEN AfterValidate(argText, argFormat)
                    ELSE AfterValidate_2(argText, argFormat)
    /\ UNCHANGED <<argText, argFormat, returned>>
    /\ UNCHANGED appVars

InitPure ==
    /\ InitApp
    /\ argText \in PureTexts
    /\ argFormat \in PureFormats
    /\ returned = NotCalled
    /\ recall = NotRecalled

NextPure ==
    \/ Next
    \/ AtStart /\ CallValidateBarcode
    \/ AtStart /\ CallValidateBarcode_2
    \/ \E text \in PureTexts : \E format \in PureFormats : CallBetween(text, format)
    \/ CallAgain

SpecPure == InitPure /\ [][NextPure]_vars

(***************************************************************************)
(* What an invocation did, read from its events                            *)
(***************************************************************************)
\* the rows on which an event of one of the kinds was logged
RowsOf(run, kinds) == {e[2] : e \in {x \in Range(run.events) : x[1] \in kinds}}

\* the rows of the events of one of the kinds, in the order they were logged
RowSeqOf(run, kinds) ==
    LET es == SelectSeq(run.events, LAMBDA e : e[1] \in kinds)
    IN  [k \in DOMAIN es |-> es[k][2]]

\* the rows validateBarcode admits under the format of the invocation
ValidRows(run) ==
    {j \in DOMAIN run.rows : validateBarcode(run.rows[j].barcode, run.format)}

\* the export attempts: the calls of saveAs (svg) or canvas.toBlob (raster)
Attempts(run) == RowSeqOf(run, {"export", "exportThrow"})

Increasing(s) == \A a, b \in DOMAIN s : a < b => s[a] < s[b]

\* the invocation ran its loop to the end and returned
RanToEnd(run) == run.pc = "done" /\ run.ctx

C2_ReturnedMeansIdle ==
    (cpu = 0 /\ \A r \in DOMAIN runs : runs[r].pc = "done") => ~isGenerating

(***************************************************************************)
(* C3                                                                      *)
(***************************************************************************)
Live == {r \in DOMAIN runs : runs[r].pc # "done"}

\* C3: at most one invocation of generateBatch is in progress at any time, and
\* while one is in progress the controller is Running.
C3_NoOverlappingRuns ==
    /\ Cardinality(Live) <= 1
    /\ Live # {} => isGenerating

\* C3 witness: an invocation is suspended in its 50 ms timer while rows are
\* loaded, the moment at which a click would start a second one.
C3_Witness ==
    \E r \in DOMAIN runs :
        /\ runs[r].pc = "await"
        /\ runs[r].i < Len(runs[r].rows)
        /\ cpu = 0
        /\ Len(batchData) > 0

(***************************************************************************)
(* C4                                                                      *)
(***************************************************************************)
\* the rows the validator rejected in the invocation
Rejected(run) == RowsOf(run, {"warn"})

\* C4, as claimed: a rejected row is skipped with no render and no export, and in
\* an invocation run to its end every later valid row was rendered and exported.
C4_LaterValidRowsExported ==
    \A r \in DOMAIN runs :
        \A k \in Rejected(runs[r]) :
            /\ k \notin RowsOf(runs[r], {"render", "renderThrow", "export", "exportThrow"})
            /\ RanToEnd(runs[r]) =>
                   \A j \in ValidRows(runs[r]) :
                       j > k => j \in RowsOf(runs[r], {"render"}) /\ j \in RowsOf(runs[r], {"export"})

\* C4, amended: a rejected row is skipped with no render and no export, and in an
\* invocation run to its end every later row was validated: a later invalid row
\* was skipped too, JsBarcode was called on every later valid row, and the export
\* was attempted for each of them on which JsBarcode returned.
C4_RejectedRowSkippedOnly ==
    \A r \in DOMAIN runs :
        \A k \in Rejected(runs[r]) :
            /\ k \notin ValidRows(runs[r])
            /\ k \notin RowsOf(runs[r], {"render", "renderThrow", "export", "exportThrow"})
            /\ RanToEnd(runs[r]) =>
                   \A j \in DOMAIN runs[r].rows :
                       j > k =>
                           /\ j \notin ValidRows(runs[r]) => j \in Rejected(runs[r])
                           /\ j \in ValidRows(runs[r]) =>
                                  j \in RowsOf(runs[r], {"render", "renderThrow"})
                           /\ j \in RowsOf(runs[r], {"render"}) =>
                                  j \in RowsOf(runs[r], {"export", "exportThrow"})

\* C4 witness: the first row was rejected and the export of the second, valid,
\* row was made.
C4_Witness ==
    \E r \in DOMAIN runs :
        /\ RanToEnd(runs[r])
        /\ 1 \in Rejected(runs[r])
        /\ 2 \in RowsOf(runs[r], {"export"})

(***************************************************************************)
(* C5                                                                      *)
(***************************************************************************)
\* the rows on which JsBarcode or the export threw
Failed(run) == RowsOf(run, {"renderThrow", "exportThrow"})

Called == returned.def # 0

KnownFormat == argFormat \in Range(BARCODE_FORMATS)

\* C6: a call of validateBarcode with the empty text and a format of
\* BARCODE_FORMATS returns false, whichever definition of validateBarcode is called.
C6_EmptyRejected ==
    (Called /\ argText = <<>> /\ KnownFormat) => ~returned.value

\* C7: a call of validateBarcode with a format that is no value of
\* BARCODE_FORMATS returns false, whatever the text.
C7_UnknownFormatRejected ==
    (Called /\ ~KnownFormat) => ~returned.value

\* C7 witness: the text "A", which every format of BARCODE_FORMATS but the EAN
\* and UPC ones admits, was rejected under the identifier "code128".
C7_Witness ==
    /\ returned = [def |-> 1, value |-> FALSE]
    /\ argFormat = "code128"
    /\ argText = <<"A">>
    /\ validateBarcode(argText, "CODE128")

Code39Chars ==
    {"0", "1", "2", "3", "4", "5", "6", "7", "8", "9"}
        \cup {"A", "B", "C", "D", "E", "F", "G", "H", "I", "J", "K", "L", "M",
              "N", "O", "P", "Q", "R", "S", "T", "U", "V", "W", "X", "Y", "Z"}
        \cup {" ", "-", ".", "$", "/", "+", "%"}

\* C9: a call of validateBarcode under CODE39 returns true exactly when the text
\* has one or more characters and each is a digit, an uppercase letter, a space
\* or one of - . $ / + %.
C9_Code39CharacterSet ==
    (Called /\ argFormat = "CODE39") =>
        (returned.value <=> (Len(argText) >= 1 /\ \A k \in DOMAIN argText : argText[k] \in Code39Chars))

\* C9 witness: "ABC-123" was admitted under CODE39, which rejects "abc".
C9_Witness ==
    /\ returned = [def |-> 1, value |-> TRUE]
    /\ argFormat = "CODE39"
    /\ argText = <<"A", "B", "C", "-", "1", "2", "3">>
    /\ ~validateBarcode(<<"a", "b", "c">>, "CODE39")

\* the number of digits the claim gives for EAN-13, EAN-8 and UPC-A
DigitsOf == [EAN13 |-> 13, EAN8 |-> 8, UPC |-> 12]

AllDecimalDigits(text) ==
    \A k \in DOMAIN text : text[k] \in {"0", "1", "2", "3", "4", "5", "6", "7", "8", "9"}

\* C10: a call of validateBarcode under EAN13, EAN8 or UPC returns true exactly
\* when the text is 13, 8 or 12 decimal digits and nothing else; and no text is
\* admitted under two of the three.
C10_ExactDigitCount ==
    /\ (Called /\ argFormat \in DOMAIN DigitsOf) =>
           (returned.value <=> (Len(argText) = DigitsOf[argFormat] /\ AllDecimalDigits(argText)))
    /\ Cardinality({f \in DOMAIN DigitsOf : validateBarcode(argText, f)}) <= 1

\* C10 witness: "1234567890123" was admitted under EAN13, and EAN8 and UPC
\* reject it.
C10_Witness ==
    /\ returned = [def |-> 1, value |-> TRUE]
    /\ argFormat = "EAN13"
    /\ argText = DigitRun(13)
    /\ ~validateBarcode(argText, "EAN8")
    /\ ~validateBarcode(argText, "UPC")

NameClaimed(prefix, code, suffix, format) ==
    [k \in 1..(Len(prefix) + Len(code) + Len(suffix) + 1 + Len(FormatChars[format])) |->
        IF k <= Len(prefix) THEN prefix[k]
        ELSE IF k <= Len(prefix) + Len(code) THEN code[k - Len(prefix)]
        ELSE IF k <= Len(prefix) + Len(code) + Len(suffix) THEN suffix[k - Len(prefix) - Len(code)]
        ELSE IF k = Len(prefix) + Len(code) + Len(suffix) + 1 THEN "."
        ELSE FormatChars[format][k - Len(prefix) - Len(code) - Len(suffix) - 1]]

\* C12: every name given to saveAs, by downloadSingle and by generateBatch, for
\* png, jpg and svg, is prefix + code + suffix + "." + format, with the export
\* settings of the click that started the export and the typed input or the code
\* of the row.
C12_ExportNames ==
    /\ single.saved # NoFileSaved =>
           single.saved.name = NameClaimed(single.saved.prefix, single.saved.code,
                                           single.saved.suffix, single.saved.format)
    /\ \A r \in DOMAIN runs :
           \A f \in runs[r].files :
               f.name = NameClaimed(runs[r].export.prefix, runs[r].rows[f.row].barcode,
                                    runs[r].export.suffix, runs[r].export.format)

\* C12 witness: downloadSingle has saved "ab.png" for the input "ab" and a batch
\* has saved "12345678.png" for its row "12345678".
C12_Witness ==
    /\ single.saved.name = <<"a", "b", ".", "p", "n", "g">>
    /\ \E r \in DOMAIN runs :
           \E f \in runs[r].files :
               /\ runs[r].rows[f.row].barcode = DigitRun(8)
               /\ f.name = DigitRun(8) \o <<".", "p", "n", "g">>

(***************************************************************************)
(* C13                                                                     *)
(***************************************************************************)
\* the number a is the configured value times resolution / 500
ScaledBy(a, value, resolution) == a.num * 500 = value * resolution * a.den

\* C13: in a batch, every call of JsBarcode for a raster format gets width, height
\* and fontSize each equal to the configured value times resolution / 500, hence
\* the configured values at resolution 500; every call for svg gets the configured
\* values themselves, whatever the resolution.
C13_RasterScaledSvgNot ==
    \A r \in DOMAIN runs :
        \A k \in DOMAIN runs[r].rendered :
            LET a == runs[r].rendered[k]
                conf == runs[r].settings
                res == runs[r].export.resolution
            IN  IF runs[r].export.format = "svg"
                THEN /\ SameNumber(a.width, Num(conf.width))
                     /\ SameNumber(a.height, Num(conf.height))
                     /\ SameNumber(a.fontSize, Num(conf.fontSize))
                ELSE /\ ScaledBy(a.width, conf.width, res)
                     /\ ScaledBy(a.height, conf.height, res)
                     /\ ScaledBy(a.fontSize, conf.fontSize, res)
                     /\ res = 500 =>
                            /\ SameNumber(a.width, Num(conf.width))
                            /\ SameNumber(a.height, Num(conf.height))
                            /\ SameNumber(a.fontSize, Num(conf.fontSize))

\* C13 witness: a jpg batch at resolution 800 with width 3 and height 150 has
\* called JsBarcode with width 4.8, height 240 and font size 32.
C13_Witness ==
    \E r \in DOMAIN runs :
        /\ runs[r].export.format = "jpg"
        /\ runs[r].export.resolution = 800
        /\ runs[r].settings.width = 3
        /\ runs[r].settings.height = 150
        /\ runs[r].rendered # <<>>
        /\ SameNumber(runs[r].rendered[1].width, [num |-> 48, den |-> 10])
        /\ SameNumber(runs[r].rendered[1].height, Num(240))
        /\ SameNumber(runs[r].rendered[1].fontSize, Num(32))

(***************************************************************************)
(* C14 and C15                                                             *)
(***************************************************************************)
\* the state of the component and of its exports, all but the record of the
\* last click
ProgramState ==
    <<activeTab, inputText, barcodeSettings, exportSettings, batchFile, batchData,
      validationError, isGenerating, previewRef, lastRender, single, reads, runs, cpu,
      lastIndex>>

\* C14: a step of generateBatch taken while batchData is empty changes nothing:
\* isGenerating is not set (an Idle controller stays Idle), no invocation is
\* created, so JsBarcode and saveAs are not called, and every other part of the
\* state is as before.
C14_EmptyBatchNoOp ==
    [][(Len(batchData) = 0 /\ \E ctx \in BOOLEAN : generateBatch(ctx)) =>
           ((~isGenerating => ~isGenerating') /\ UNCHANGED ProgramState)]_vars

\* C14 witness: generateBatch was run with no rows and has returned; the controller
\* is Idle and there is no invocation.
C14_Witness ==
    /\ clicked = Clicked("batch", "returned")
    /\ Len(batchData) = 0
    /\ ~isGenerating
    /\ runs = <<>>

\* C15: a step of downloadSingle taken while the input is empty or an error is
\* shown changes nothing: JsBarcode is not called, no toBlob callback is left to
\* come, no file is saved, and every other part of the state is as before.
C15_BlockedDownloadNoOp ==
    [][((inputText = <<>> \/ validationError # <<>>) /\
            \E ctx \in BOOLEAN : \E ok \in BOOLEAN : downloadSingle(ctx, ok)) =>
           UNCHANGED ProgramState]_vars

\* C15 witness: downloadSingle was run while "Invalid format for CODE39" was shown
\* for the input "ab" and has returned; JsBarcode was never called for an export
\* and nothing was saved.
C15_Witness ==
    /\ clicked = Clicked("download", "returned")
    /\ inputText = <<"a", "b">>
    /\ validationError = <<"Invalid format for ", "CODE39">>
    /\ lastRender.by # "single"
    /\ single = [pending |-> {}, saved |-> NoFileSaved, content |-> <<>>]

(***************************************************************************)
(* The parsers alone: reader.onload on files of every layout               *)
(***************************************************************************)

\* lines of a parsed TXT file
MaxLines == 3

\* columns of a parsed CSV file
MaxColumns == 2

\* records, below the header, of a parsed CSV file
MaxRecords == 2

\* the lines of the TXT files: empty, blank, a code, a code between white space, a
\* code with a space inside, a code before the carriage return of a CRLF line end
TxtLines ==
    {<<>>, <<" ">>, <<"a", "b">>, <<" ", "a", "b", "TAB">>, <<"a", " ", "b">>,
     <<"c", "d", "CR">>}

TxtFiles == {[name |-> TxtName, text |-> JoinLines(ls)] : ls \in SeqsUpTo(TxtLines, MaxLines)}

CsvName == <<"a", ".", "c", "s", "v">>

NameBarcodeUpper == <<"B", "A", "R", "C", "O", "D", "E">>

NameSku == <<"s", "k", "u">>

HeaderNames ==
    {NameBarcode, NameBarcodeCapital, NameBarcodeUpper, NameText, NameTextCapital, NameSku}

\* the header lines: up to MaxColumns names, no name twice
Headers ==
    {h \in SeqsUpTo(HeaderNames, MaxColumns) :
        h # <<>> /\ \A i, j \in DOMAIN h : h[i] = h[j] => i = j}

\* the field of record k in column c when it is filled in: two digits no other
\* field of the file has
Cell(k, c) == <<DigitChars[k + 1], DigitChars[c + 1]>>

\* the fields joined by commas
RECURSIVE JoinFields(_)
JoinFields(fs) ==
    IF fs = <<>> THEN <<>>
    ELSE IF Len(fs) = 1 THEN fs[1]
    ELSE fs[1] \o <<",">> \o JoinFields(Tail(fs))

\* a CSV text: the header and n records, the field (k, c) filled in where filled[k][c]
CsvText(header, filled) ==
    JoinLines(<<JoinFields(header)>> \o
              [k \in DOMAIN filled |->
                  JoinFields([c \in DOMAIN header |->
                                 IF filled[k][c] THEN Cell(k, c) ELSE <<>>])])

CsvFiles ==
    {[name |-> CsvName, text |-> CsvText(h, filled)] :
        <<h, filled>> \in UNION {{h} \X SeqsUpTo([DOMAIN h -> BOOLEAN], MaxRecords) :
                                    h \in Headers}}

ParserFiles == TxtFiles \cup CsvFiles

\* a file has been chosen in the batch tab and its text is about to arrive
InitParser ==
    /\ activeTab = "batch"
    /\ inputText = <<>>
    /\ barcodeSettings = InitialBarcodeSettings
    /\ exportSettings = InitialExportSettings
    /\ batchFile \in ParserFiles
    /\ reads = {batchFile}
    /\ batchData = <<>>
    /\ validationError = <<>>
    /\ isGenerating = FALSE
    /\ previewRef = NoElement
    /\ lastRender = NoRender
    /\ single = [pending |-> {}, saved |-> NoFileSaved, content |-> <<>>]
    /\ clicked = Clicked("none", "none")
    /\ runs = <<>>
    /\ cpu = 0
    /\ edits = 1
    /\ lastIndex = FreshRegexes
    /\ argText = <<>>
    /\ argFormat = "CODE128"
    /\ returned = [def |-> 0, value |-> FALSE]
    /\ recall = [def |-> 0, value |-> FALSE, others |-> 0, ui |-> <<"CODE128", 0, FALSE>>]

NextParser == \E file \in reads : readerOnload(file)

SpecParser == InitParser /\ [][NextParser]_vars

\* the text of batchFile has been read and parsed
Loaded == reads = {}

\* the pieces of the text between line feeds
LinesOf(text) ==
    LET ends == {i \in DOMAIN text : text[i] = "LF"} \cup {Len(text) + 1}
        Start(e) == IF \E d \in ends : d < e
                    THEN 1 + CHOOSE d \in ends : d < e /\ \A x \in ends : x < e => x <= d
                    ELSE 1
        Nth(n) == CHOOSE e \in ends : Cardinality({d \in ends : d < e}) = n - 1
    IN  [n \in 1..Cardinality(ends) |-> SubSeq(text, Start(Nth(n)), Nth(n) - 1)]

\* the positions of a line that do not hold white space
Inked(line) == {i \in DOMAIN line : line[i] \notin WhiteSpace}

\* the line from its first to its last character that is not white space
Stripped(line) ==
    SubSeq(line, CHOOSE i \in Inked(line) : \A j \in Inked(line) : i <= j,
                 CHOOSE i \in Inked(line) : \A j \in Inked(line) : j <= i)

\* C16: once a file whose name does not end in .csv is read, batchData has one row
\* per line of the file that holds something else than white space, in file order;
\* the row's code is that line without its leading and trailing white space, its
\* label is the same text, and no code is empty.
C16_TxtOneRowPerNonBlankLine ==
    (Loaded /\ ~EndsWithCsv(batchFile.name)) =>
        LET kept == SelectSeq(LinesOf(batchFile.text), LAMBDA line : Inked(line) # {})
        IN  /\ Len(batchData) = Len(kept)
            /\ \A k \in DOMAIN batchData :
                   /\ batchData[k].barcode = Stripped(kept[k])
                   /\ batchData[k].text = batchData[k].barcode
                   /\ batchData[k].barcode # <<>>

\* C16 witness: " ab<TAB>", a line of one space and "cd<CR>" were read: two rows,
\* "ab" and "cd", the blank line between them dropped.
C16_Witness ==
    /\ Loaded
    /\ batchFile = [name |-> TxtName,
                    text |-> <<" ", "a", "b", "TAB", "LF", " ", "LF", "c", "d", "CR">>]
    /\ batchData = <<[barcode |-> <<"a", "b">>, text |-> <<"a", "b">>],
                     [barcode |-> <<"c", "d">>, text |-> <<"c", "d">>]>>

LowerChars ==
    <<"a", "b", "c", "d", "e", "f", "g", "h", "i", "j", "k", "l", "m",
      "n", "o", "p", "q", "r", "s", "t", "u", "v", "w", "x", "y", "z">>

\* the name with its capital letters made small
ToLower(name) ==
    [i \in DOMAIN name |->
        IF name[i] \in Range(UpperChars) THEN LowerChars[IndexOf(UpperChars, name[i])]
        ELSE name[i]]

\* the columns of a record whose name is "barcode" in some capitalisation
CodeColumns(row) == {c \in DOMAIN row : ToLower(row[c][1]) = NameBarcode}

\* the records Papa.parse made of the file that was read
Records == PapaParse(batchFile.text)

\* C17: once a file whose name ends in .csv is read, batchData has one row per
\* parsed record, in record order; the row's code is the value of the record's
\* field named "barcode" in whatever capitalisation when there is one, and the
\* value of the record's first column when there is none.
C17_CodeFromBarcodeAnyCase ==
    (Loaded /\ EndsWithCsv(batchFile.name)) =>
        /\ Len(batchData) = Len(Records)
        /\ \A k \in DOMAIN batchData :
               IF CodeColumns(Records[k]) # {}
               THEN \E c \in CodeColumns(Records[k]) : batchData[k].barcode = Records[k][c][2]
               ELSE batchData[k].barcode = Records[k][1][2]

\* the part of C17 the code keeps: one row per record, in record order, and for a
\* record with a non-empty field named barcode or Barcode the code is that field
C17_CodeFromBarcodeTwoCases ==
    (Loaded /\ EndsWithCsv(batchFile.name)) =>
        /\ Len(batchData) = Len(Records)
        /\ \A k \in DOMAIN batchData :
               \A c \in DOMAIN Records[k] :
                   (Records[k][c][1] = NameBarcode /\ Records[k][c][2] # <<>>) =>
                       batchData[k].barcode = Records[k][c][2]

\* a file with the header text,BARCODE was read and the code of its row is the
\* value of the column text
C17_UpperCaseHeaderIgnored ==
    /\ Loaded
    /\ batchFile = [name |-> CsvName,
                    text |-> JoinLines(<<JoinFields(<<NameText, NameBarcodeUpper>>),
                                         JoinFields(<<Cell(1, 1), Cell(1, 2)>>)>>)]
    /\ batchData = <<[barcode |-> Cell(1, 1), text |-> Cell(1, 1)]>>

\* the columns of a record that supply a label: named text or Text and not empty
LabelColumns(row) ==
    {c \in DOMAIN row : row[c][1] \in {NameText, NameTextCapital} /\ row[c][2] # <<>>}

\* C18: once a file is read, every row of batchData has a label: for a CSV file
\* the record's non-empty field text or Text when it has one, whatever the place of
\* that column, and the row's code when it has none or the field is empty; for a
\* TXT file the row's code.
C18_LabelDefaultsToCode ==
    Loaded =>
        \A k \in DOMAIN batchData :
            IF EndsWithCsv(batchFile.name) /\ LabelColumns(Records[k]) # {}
            THEN \E c \in LabelColumns(Records[k]) : batchData[k].text = Records[k][c][2]
            ELSE batchData[k].text = batchData[k].barcode

\* C18 witness: the header text,barcode with the records 11,12 and ,22 was read:
\* the first row has the label 11 next to the code 12, the second row has no label
\* supplied and takes its code 22 as label.
C18_Witness ==
    /\ Loaded
    /\ batchFile = [name |-> CsvName,
                    text |-> CsvText(<<NameText, NameBarcode>>,
                                     <<[c \in 1..2 |-> TRUE], [c \in 1..2 |-> c = 2]>>)]
    /\ batchData = <<[barcode |-> Cell(1, 2), text |-> Cell(1, 1)],
                     [barcode |-> Cell(2, 2), text |-> Cell(2, 2)]>>

\* C19: in every reachable state, whatever was selected, typed, uploaded or run
\* before, barcodeSettings.format is the id of one of BARCODE_FORMATS.
C19_FormatIsDefined == \E i \in DOMAIN BARCODE_FORMATS : barcodeSettings.format = BARCODE_FORMATS[i]

\* C19 witness: EAN13 was selected in place of the initial CODE128, a file was
\* uploaded and a batch run with that format has come to its end.
C19_Witness ==
    /\ barcodeSettings.format = "EAN13"
    /\ batchData # <<>>
    /\ \E r \in DOMAIN runs : RanToEnd(runs[r]) /\ runs[r].format = "EAN13"

\* C20: the last call of JsBarcode, whether of the preview effect, of
\* downloadSingle or of a batch row, was given a text that validateBarcode admits
\* for the format it was given.
C20_RenderedOnlyValidated ==
    lastRender.by # "none" => validateBarcode(lastRender.text, lastRender.format)

\* the part of C20 the code keeps: the calls of the preview effect and of the batch
\* rows are given validated text
C20_PreviewAndBatchValidated ==
    (lastRender.by # "none" /\ lastRender.by # "single") =>
        validateBarcode(lastRender.text, lastRender.format)

\* downloadSingle has called JsBarcode with the format EAN13 on the eight digits
\* typed while CODE128 was selected
C20_UnvalidatedDownload ==
    /\ clicked.button = "download"
    /\ lastRender.by = "single"
    /\ lastRender.text = DigitRun(8)
    /\ lastRender.format = "EAN13"
    /\ validationError = <<>>

(***************************************************************************)
(* C21                                                                     *)
(***************************************************************************)

\* the input is there and validateBarcode rejects it for the selected format
InputRejected == inputText # <<>> /\ ~validateBarcode(inputText, barcodeSettings.format)

\* C21: in every state of the single tab, all effects run, an error is shown if
\* and only if the input is not empty and validateBarcode rejects it for the
\* selected format, or JsBarcode failed on it.
C21_ErrorIffRejected ==
    activeTab = "single" =>
        /\ InputRejected => validationError # <<>>
        /\ validationError # <<>> =>
               (InputRejected \/
                    (inputText # <<>> /\ validationError = <<"Error generating barcode">>))

\* the half of C21 the code keeps: an error that is shown is the error of the
\* input and format of that moment
C21_ShownErrorIsCurrent ==
    validationError # <<>> =>
        \/ InputRejected /\ validationError = <<"Invalid format for ", barcodeSettings.format>>
        \/ /\ inputText # <<>>
           /\ validationError = <<"Error generating barcode">>
           /\ lastRender = PreviewArgs(inputText, barcodeSettings)

\* the single tab shows no error, a mounted but empty preview and an enabled
\* download button for eight digits while EAN13 is selected
C21_StaleNoError ==
    /\ activeTab = "single"
    /\ inputText = DigitRun(8)
    /\ barcodeSettings.format = "EAN13"
    /\ validationError = <<>>
    /\ previewRef = [current |-> TRUE, drawn |-> <<>>]

(***************************************************************************)
(* C22                                                                     *)
(***************************************************************************)

\* the rows JsBarcode was called on
Drawn(run) == RowsOf(run, {"render", "renderThrow"})

\* C22: whenever JsBarcode has been called on a row of an invocation, the export of
\* every earlier row of that invocation is over: no toBlob callback of an earlier
\* row is still to come.
C22_ExportDoneBeforeNextRow ==
    \A r \in DOMAIN runs :
        \A j \in runs[r].pending : \A k \in Drawn(runs[r]) : k <= j

\* the part of C22 the code keeps: with the svg format an exported row is saved
\* before the invocation suspends, so nothing is ever left to come
C22_SvgExportDoneBeforeNextRow ==
    \A r \in DOMAIN runs :
        runs[r].exportFormat = "svg" =>
            /\ runs[r].pending = {}
            /\ \A k \in RowsOf(runs[r], {"export"}) : k \in runs[r].saved

\* JsBarcode has drawn row 2 on the shared canvas while the toBlob callback of
\* row 1 has not run: nothing of row 1 is saved yet
C22_DrawnBeforeBlob ==
    \E r \in DOMAIN runs :
        /\ runs[r].exportFormat # "svg"
        /\ 1 \in runs[r].pending
        /\ 1 \notin runs[r].saved
        /\ 2 \in RowsOf(runs[r], {"render"})

(***************************************************************************)
(* C23                                                                     *)
(***************************************************************************)

\* C23: no click in the single tab has ended with the exception of JsBarcode
\* leaving its handler; a failure of JsBarcode is shown as an error message.
C23_SingleFailureContained ==
    clicked.outcome = "threw" => validationError = <<"Error generating barcode">>

\* the part of C23 the code keeps: a step of the preview effect in which JsBarcode
\* was called and threw ends with the message "Error generating barcode" shown,
\* inside the effect
C23_PreviewFailureCaught ==
    [][(/\ \/ \E t \in InputTexts : SetInputText(t, FALSE)
           \/ \E f \in FormatOptions : SelectFormat(f, FALSE)
        /\ lastRender' # lastRender) =>
           (validationError' = <<"Error generating barcode">> /\ clicked' = clicked)]_vars

\* downloadSingle called JsBarcode, JsBarcode threw, the exception left the click
\* handler and no message is shown
C23_DownloadThrew ==
    /\ clicked = Clicked("download", "threw")
    /\ lastRender.by = "single"
    /\ validationError = <<>>
    /\ single.pending = {}

(***************************************************************************)
(* C24                                                                     *)
(***************************************************************************)

\* the places in the log of an invocation where JsBarcode was called
RenderAttempts(run) == {n \in DOMAIN run.events : run.events[n][1] \in {"render", "renderThrow"}}

\* two calls of JsBarcode with no call between them
Consecutive(run, a, b) ==
    /\ a \in RenderAttempts(run)
    /\ b \in RenderAttempts(run)
    /\ a < b
    /\ \A n \in RenderAttempts(run) : ~(a < n /\ n < b)

\* how many events of the kind are logged between the places a and b
CountBetween(run, kind, a, b) ==
    Cardinality({n \in DOMAIN run.events : a < n /\ n < b /\ run.events[n][1] = kind})

\* C24: between any two consecutive calls of JsBarcode of an invocation the
\* invocation suspended once for the 50 ms delay, whether the earlier row was
\* exported or its render or export threw.
C24_OneSuspensionBetweenRows ==
    \A r \in DOMAIN runs : \A a, b \in DOMAIN runs[r].events :
        Consecutive(runs[r], a, b) => CountBetween(runs[r], "await", a, b) = 1

\* the part of C24 the code keeps: the invocation suspends once after a row whose
\* export was started, and not at all after a row whose render or export threw
C24_SuspensionAfterExportOnly ==
    \A r \in DOMAIN runs : \A a, b \in DOMAIN runs[r].events :
        Consecutive(runs[r], a, b) =>
            CountBetween(runs[r], "await", a, b) = CountBetween(runs[r], "export", a, b)

\* JsBarcode threw on row 1 and was called on row 2 with no suspension between
C24_NoSuspensionAfterThrow ==
    \E r \in DOMAIN runs :
        /\ Len(runs[r].events) >= 3
        /\ runs[r].events[1] = <<"renderThrow", 1>>
        /\ runs[r].events[2] = <<"error", 1>>
        /\ runs[r].events[3] = <<"render", 2>>

(***************************************************************************)
(* C25                                                                     *)
(***************************************************************************)

\* what an invocation read of the component state when it started
Snapshot(run) == <<run.rows, run.format, run.exportFormat, run.settings, run.export>>

\* the rows JsBarcode was called on, in the order of the calls
DrawnSeq(run) == RowSeqOf(run, {"render", "renderThrow"})

\* everything the invocation did so far, it did with its snapshot: the events are
\* of rows of the snapshot, every call of JsBarcode got the code and label of such
\* a row, the format and the sizes of the snapshot, scaled by its resolution for a
\* raster format, and every file is named by its prefix, suffix and format
UsesSnapshot(run) ==
    /\ \A n \in DOMAIN run.events : run.events[n][2] \in DOMAIN run.rows
    /\ Len(run.rendered) = Len(DrawnSeq(run))
    /\ \A k \in DOMAIN run.rendered :
           LET a == run.rendered[k]
               row == run.rows[DrawnSeq(run)[k]]
               res == IF run.export.format = "svg" THEN 500 ELSE run.export.resolution
           IN  /\ a.text = row.barcode
               /\ a.label = row.text
               /\ a.format = run.settings.format
               /\ ScaledBy(a.width, run.settings.width, res)
               /\ ScaledBy(a.height, run.settings.height, res)
               /\ ScaledBy(a.fontSize, run.settings.fontSize, res)
    /\ \A f \in run.files :
           /\ f.row \in DOMAIN run.rows
           /\ f.name = NameClaimed(run.export.prefix, run.rows[f.row].barcode,
                                   run.export.suffix, run.export.format)

\* C25: an invocation of generateBatch takes its rows, barcode settings and export
\* settings from the component state at the click; no later step, upload or change
\* of a setting included, changes what it took, and every render, export and file
\* name of the invocation is made from what it took.
C25_RunUsesItsSnapshot ==
    [][/\ \/ /\ \E ctx \in BOOLEAN : generateBatch(ctx)
             /\ Len(batchData) > 0
             /\ Snapshot(runs'[Len(runs')]) =
                    <<batchData, barcodeSettings.format, exportSettings.format,
                      barcodeSettings, exportSettings>>
          \/ /\ Len(runs') = Len(runs)
             /\ \A r \in DOMAIN runs : Snapshot(runs'[r]) = Snapshot(runs[r])
       /\ \A r \in DOMAIN runs' : UsesSnapshot(runs'[r])]_vars

\* C25 witness: an invocation started as png is about to process its second row,
\* its first row was saved as 12345678.png, and the export format was changed to
\* svg while it was suspended.
C25_Witness ==
    /\ cpu # 0
    /\ runs[cpu].pc = "loop"
    /\ runs[cpu].i = 2
    /\ Len(runs[cpu].rows) = 2
    /\ runs[cpu].export.format = "png"
    /\ exportSettings.format = "svg"
    /\ runs[cpu].files = {[row |-> 1, name |-> DigitRun(8) \o <<".", "p", "n", "g">>]}

(***************************************************************************)
(* C26                                                                     *)
(***************************************************************************)

\* the rows reader.onload makes of a file
RowsOfFile(file) == IF EndsWithCsv(file.name) THEN CsvRows(file.text) ELSE TxtRows(file.text)

\* C26: once every read of an uploaded file has completed, whatever their order,
\* batchData holds the rows of batchFile, the file selected last.
C26_RowsOfLastSelectedFile ==
    (reads = {} /\ batchFile # NoFile) => batchData = RowsOfFile(batchFile)

\* the part of C26 the code keeps: a step that changes batchData replaces it by the
\* rows of one file whose read has completed; rows of two files are never merged
C26_RowsOfOneFile ==
    [][batchData' # batchData => \E file \in reads : batchData' = RowsOfFile(file)]_vars

\* the file "ab" was selected after the file "12345678", its read completed first,
\* and the rows are those of the earlier file
C26_RowsOfEarlierFile ==
    /\ reads = {}
    /\ batchFile = [name |-> TxtName, text |-> <<"a", "b">>]
    /\ batchData = <<[barcode |-> DigitRun(8), text |-> DigitRun(8)]>>

====
